---- MODULE Spec2Model ----
(***************************************************************************)
(* Model of dltranz/data_load/data_module/nsp_data_module.py:              *)
(* the NSP batch assembler collate_nsp_pairs and the life cycle of         *)
(* NspDataModuleTrain (__init__, prepare_data, train_dataloader,           *)
(* val_dataloader).                                                        *)
(*                                                                         *)
(* A row of the source is [id, len]: the value of col_id and the length of *)
(* the event sequence.  A record carries `hist`, the names of the stages   *)
(* it has passed, and `view`, the number of the view it was split into     *)
(* (0 while it is still a whole record).                                   *)
(***************************************************************************)
EXTENDS Integers, Sequences, FiniteSets, TLC

VARIABLES
    pc,             \* "new" | "constructed" | "prepared" | "failed" | "collate"
    err,            \* name of the exception that ended the run, or "none"
    conf,           \* the conf argument of __init__ (NoConf before it)
    data_rows,      \* rows of the files, as ParquetFiles/PartitionedDataFiles find them
    train_dataset,  \* self.train_dataset
    valid_dataset,  \* self.valid_dataset
    train_source,   \* the dataset setup_iterable_* assigned to self.train_dataset
    valid_source,   \* the dataset setup_iterable_* assigned to self.valid_dataset
    train_ids,      \* self._train_ids
    valid_ids,      \* self._valid_ids
    train_loader,   \* the DataLoader train_dataloader returned
    val_loader,     \* the DataLoader val_dataloader returned
    batch,          \* argument of collate_nsp_pairs
    out             \* value collate_nsp_pairs returned

vars == <<pc, err, conf, data_rows, train_dataset, valid_dataset, train_source,
          valid_source, train_ids, valid_ids, train_loader, val_loader, batch, out>>

\* ------------------------------------------------------------------ bounds
MaxRows == 2        \* rows in the source
MaxSeqLen == 2      \* longest event sequence; min_seq_len ranges over 1..MaxSeqLen
SplitCount == 2     \* views the split strategy cuts out of one record
MaxBatch == 4       \* pairs in one batch handed to collate_nsp_pairs

\* Entities of the source and the files holding them.  All rows of an entity
\* live in one file (for a partitioned source the hash part is a function of
\* col_id).
EntityIds == {1, 2}
DataFiles == <<1, 2>>
FileOf(id) == ((id - 1) % Len(DataFiles)) + 1

\* valid_size as a fraction <<numerator, denominator>>.  The denominators are
\* powers of two, so the float product len(list_ids) * valid_size is exact.
ValidSizes == {<<0, 1>>, <<1, 4>>, <<1, 2>>, <<3, 4>>}

\* A dataset object; None is the value of a field that was never assigned.
DatasetObj(kind, files, chain, shuffle_files, base, splitter, a_chain) ==
    [kind |-> kind, files |-> files, chain |-> chain, shuffle_files |-> shuffle_files,
     base |-> base, splitter |-> splitter, a_chain |-> a_chain]
None == DatasetObj("None", <<>>, <<>>, FALSE, <<>>, "", <<>>)
NoLoader == [built |-> FALSE, collate_fn |-> "", shuffle |-> FALSE, part |-> ""]
NoOut == [lefts |-> <<>>, rights |-> <<>>, targets |-> <<>>]
NoConf == [type |-> "unset"]
NoIds == <<-1>>     \* self._train_ids = None

Types == {"map", "iterable", "other"}
SplitBys == {"files", "rows", "hash_id", "other"}

Confs ==
    [type : Types, has_files : BOOLEAN, has_parts : BOOLEAN, split_by : SplitBys,
     valid_size : ValidSizes, min_seq_len : 1..MaxSeqLen]

Rows == [id : EntityIds, len : 1..MaxSeqLen]

Datasets == UNION {[1..n -> Rows] : n \in 0..MaxRows}

\* ------------------------------------------------------------- sequences
RECURSIVE Flatten(_)
Flatten(ss) == IF ss = <<>> THEN <<>> ELSE Head(ss) \o Flatten(Tail(ss))

Range(s) == {s[i] : i \in DOMAIN s}

\* the permutations of 1..n, for every length a list of the model can have
MaxPerm == IF MaxBatch > MaxRows THEN MaxBatch ELSE MaxRows
PermTable ==
    [n \in 0..MaxPerm |->
        {p \in [1..n -> 1..n] : \A i, j \in 1..n : p[i] = p[j] => i = j}]
Perms(n) == PermTable[n]

SeqPerms(s) == {[i \in 1..Len(s) |-> s[p[i]]] : p \in Perms(Len(s))}

Occurrences(s, x) == Cardinality({i \in DOMAIN s : s[i] = x})

\* the same elements, each as often
IsPermutationOf(s, t) ==
    /\ Len(s) = Len(t)
    /\ \A x \in Range(s) \cup Range(t) : Occurrences(s, x) = Occurrences(t, x)

\* ------------------------------------------------------ collate_nsp_pairs
\* A view is [sample, view, side]; a batch is a sequence of <<left, right>>.
View(sample, v, side) == [sample |-> sample, view |-> v, side |-> side]
Pairs == {<<View(e, v, "left"), View(e, v, "right")>> : e \in EntityIds, v \in 1..SplitCount}
Batches == UNION {[1..n -> Pairs] : n \in 1..MaxBatch}

\* padded_collate_wo_target stacks the views row by row: row i is view i.
padded_collate_wo_target(views) == views

\* lefts = [left for left, _ in batch] * 2
nsp_lefts(b) ==
    LET lefts == [i \in 1..Len(b) |-> b[i][1]] IN lefts \o lefts

\* a copy drawn with replacement (random.choices) in place of the shuffled copy
nsp_rights_with_replacement(b, p) ==
    LET rights == [i \in 1..Len(b) |-> b[i][2]]
        rights_ == [i \in 1..Len(b) |-> rights[p[1]]]
    IN  rights \o rights_

\* rights, then a shuffled copy of rights; p is the outcome of random.shuffle
nsp_rights(b, p) ==
    LET rights == [i \in 1..Len(b) |-> b[i][2]]
        rights_ == [i \in 1..Len(b) |-> rights[p[i]]]
    IN  rights \o rights_

\* the two halves of the label tensor in the other order
nsp_targets_swapped(b) ==
    [i \in 1..Len(b) |-> 0] \o [i \in 1..Len(b) |-> 1]

\* torch.cat([ones(len(batch)), zeros(len(batch))]).float()
nsp_targets(b) ==
    [i \in 1..Len(b) |-> 1] \o [i \in 1..Len(b) |-> 0]

collate_nsp_pairs(b, p) ==
    [lefts   |-> padded_collate_wo_target(nsp_lefts(b)),
     rights  |-> padded_collate_wo_target(nsp_rights(b, p)),
     targets |-> nsp_targets(b)]

\* ------------------------------------------------------ transform chain
Stage(op, ids, n, augs, splitter) ==
    [op |-> op, ids |-> ids, n |-> n, augs |-> augs, splitter |-> splitter]
IdFilter(relevant_ids) == Stage("IdFilter", relevant_ids, 0, <<>>, "")
SeqLenFilter(min_seq_len) == Stage("SeqLenFilter", <<>>, min_seq_len, <<>>, "")
FeatureTypeCast == Stage("FeatureTypeCast", <<>>, 0, <<>>, "")
FeatureFilter == Stage("FeatureFilter", <<>>, 0, <<>>, "")
CategorySizeClip == Stage("CategorySizeClip", <<>>, 0, <<>>, "")
IterableShuffle == Stage("IterableShuffle", <<>>, 0, <<>>, "")
IterableSplittingDataset(part) == Stage("IterableSplittingDataset", <<>>, 0, <<>>, part)
IterableAugmentations(augs) == Stage("IterableAugmentations", <<>>, 0, augs, "")

Rec(row) == [id |-> row.id, len |-> row.len, view |-> 0, hist |-> <<>>]

Tag(s, names) == [i \in 1..Len(s) |-> [s[i] EXCEPT !.hist = @ \o names]]

\* the split strategy cuts SplitCount views out of every record
SplitViews(s, name) ==
    Flatten([i \in 1..Len(s) |->
        [v \in 1..SplitCount |-> [s[i] EXCEPT !.view = v, !.hist = Append(@, name)]]])

\* What one stage makes of a stream: the set of streams it can produce.
RunStage(st, s) ==
    LET InIds(r) == r.id \in Range(st.ids)
        LongEnough(r) == r.len >= st.n
    IN  CASE st.op = "IdFilter" -> {Tag(SelectSeq(s, InIds), <<st.op>>)}
          [] st.op = "SeqLenFilter" -> {Tag(SelectSeq(s, LongEnough), <<st.op>>)}
          [] st.op = "IterableShuffle" -> SeqPerms(Tag(s, <<st.op>>))
          [] st.op = "IterableSplittingDataset" -> {SplitViews(s, st.op)}
          [] st.op = "IterableAugmentations" -> {Tag(s, st.augs)}
          [] OTHER -> {Tag(s, <<st.op>>)}

RECURSIVE RunChain(_, _)
RunChain(chain, S) ==
    IF chain = <<>> THEN S
    ELSE RunChain(Tail(chain), UNION {RunStage(Head(chain), s) : s \in S})

\* The rows of the given files, file by file.
ReadFiles(files, rows, shuffle_files) ==
    LET order == IF shuffle_files THEN SeqPerms(files) ELSE {files}
        recs == [i \in 1..Len(rows) |-> Rec(rows[i])]
        RowsOf(f) == LET InFile(r) == FileOf(r.id) = f IN SelectSeq(recs, InFile)
    IN  {Flatten([i \in 1..Len(o) |-> RowsOf(o[i])]) : o \in order}

\* --------------------------------------------------------- the id split
\* n * valid_size, truncated and rounded
Trunc(n, f) == (n * f[1]) \div f[2]
Round(n, f) == (2 * n * f[1] + f[2]) \div (2 * f[2])

\* ListSplitter(source, valid_size, seed): the sorted source, its first
\* valid_size * N elements (rounded to the nearest count) are valid.
ListSplitter(source, valid_size) ==
    [valid |-> SubSeq(source, 1, Round(Len(source), valid_size)),
     train |-> SubSeq(source, Round(Len(source), valid_size) + 1, Len(source))]

\* sorted(data, key=col_id): a stable insertion sort
RECURSIVE InsertById(_, _)
InsertById(r, s) ==
    IF s = <<>> THEN <<r>>
    ELSE IF r.id < Head(s).id THEN <<r>> \o s
    ELSE <<Head(s)>> \o InsertById(r, Tail(s))

RECURSIVE SortById(_)
SortById(s) ==
    IF s = <<>> THEN <<>>
    ELSE InsertById(s[Len(s)], SortById(SubSeq(s, 1, Len(s) - 1)))

\* random.Random(42).shuffle(list(range(n))): position i holds element PyShuffle42[n][i]
PyShuffle42 ==
    [n \in 0..6 |->
        CASE n = 0 -> <<>>
          [] n = 1 -> <<0>>
          [] n = 2 -> <<1, 0>>
          [] n = 3 -> <<1, 0, 2>>
          [] n = 4 -> <<2, 1, 3, 0>>
          [] n = 5 -> <<3, 1, 2, 4, 0>>
          [] n = 6 -> <<3, 1, 2, 4, 0, 5>>]

\* shuffle_client_list_reproducible(conf, data) with client_list_shuffle_seed 42:
\* sort by col_id, then shuffle with the seeded generator
shuffle_client_list_reproducible(data) ==
    [i \in 1..Len(data) |-> SortById(data)[PyShuffle42[Len(data)][i] + 1]]

\* np.random.RandomState(42).permutation(n)
NpPermutation42 ==
    [n \in 0..6 |->
        CASE n = 0 -> <<>>
          [] n = 1 -> <<0>>
          [] n = 2 -> <<1, 0>>
          [] n = 3 -> <<0, 1, 2>>
          [] n = 4 -> <<1, 3, 0, 2>>
          [] n = 5 -> <<1, 4, 2, 0, 3>>
          [] n = 6 -> <<0, 1, 5, 2, 4, 3>>]

\* size=int(round(...)) in place of int(...)
valid_count_rounded(n, valid_size) == Round(n, valid_size)

\* size=int(len(list_ids) * self.setup_conf['valid_size'])
valid_count(n, valid_size) == Trunc(n, valid_size)

\* RandomState(42).choice(arange(n), size, replace=False), as a set:
\* the first `size` entries of permutation(n)
valid_ix(n, size) == {NpPermutation42[n][i] : i \in 1..size}

\* list_ids: the rows the length filter keeps, reordered, then their col_id
collect_ids(c, data_files, rows) ==
    LET ds == CHOOSE s \in RunChain(<<SeqLenFilter(c.min_seq_len)>>,
                                     ReadFiles(data_files, rows, FALSE)) : TRUE
    IN  [i \in 1..Len(ds) |-> shuffle_client_list_reproducible(ds)[i].id]

\* [rec for i, rec in enumerate(list_ids) if (i in valid_ix) == keep_valid];
\* enumerate() counts from 0
pick_ids(list_ids, vix, keep_valid) ==
    Flatten([i \in 1..Len(list_ids) |->
        IF ((i - 1) \in vix) = keep_valid THEN <<list_ids[i]>> ELSE <<>>])

split_ids(list_ids, vix) ==
    [train |-> pick_ids(list_ids, vix, FALSE), valid |-> pick_ids(list_ids, vix, TRUE)]

split_list(list_ids, valid_size) ==
    split_ids(list_ids, valid_ix(Len(list_ids), valid_count(Len(list_ids), valid_size)))

\* split_by_rows: [train, valid], the values of _train_ids and _valid_ids
split_by_rows(c, data_files, rows) ==
    split_list(collect_ids(c, data_files, rows), c.valid_size)

\* ------------------------------------------------------ NspDataModuleTrain
\* DropoutTrx yielded for every part
build_augmentations_dropout_always(part) ==
    <<"DropoutTrx", "sequence_pair_augmentation">>

\* build_augmentations(part)
build_augmentations(part) ==
    (IF part = "train" THEN <<"DropoutTrx">> ELSE <<>>)
        \o <<"sequence_pair_augmentation">>

\* build_iterable_processing(part), with the _train_ids/_valid_ids of the moment
build_iterable_processing(c, part, tids, vids) ==
    (IF c.has_files /\ c.split_by = "rows"
        THEN (IF part = "train" THEN <<IdFilter(tids)>> ELSE <<IdFilter(vids)>>)
        ELSE <<>>)
    \o (IF part = "train" THEN <<SeqLenFilter(c.min_seq_len)>> ELSE <<>>)
    \o <<FeatureTypeCast, FeatureFilter, CategorySizeClip>>
    \o (IF c.type = "iterable"
        THEN (IF part = "train" THEN <<IterableShuffle>> ELSE <<>>)
             \o <<IterableSplittingDataset(part)>>
             \o <<IterableAugmentations(build_augmentations(part))>>
        ELSE <<>>)

\* shuffle_files of the train dataset; the valid dataset passes False
train_shuffle_files(c) == IF c.type = "iterable" THEN TRUE ELSE FALSE

ParquetDataset(files, chain, shuffle_files) ==
    DatasetObj("ParquetDataset", files, chain, shuffle_files, <<>>, "", <<>>)
PartitionedDataset(hash_parts, chain, shuffle_files) ==
    DatasetObj("PartitionedDataset", hash_parts, chain, shuffle_files, <<>>, "", <<>>)
MapSplittingDataset(base_dataset, splitter, a_chain) ==
    DatasetObj("MapSplittingDataset", <<>>, <<>>, FALSE, base_dataset, splitter, a_chain)

\* The streams of views a dataset can hand to its loader.
Items(ds, rows) ==
    IF ds.kind = "MapSplittingDataset"
    THEN {Tag(SplitViews(ds.base, ds.kind), ds.a_chain)}
    ELSE RunChain(ds.chain, ReadFiles(ds.files, rows, ds.shuffle_files))

Outcome(e, td, vd, tids, vids) ==
    [err |-> e, train_dataset |-> td, valid_dataset |-> vd,
     train_source |-> td, valid_source |-> vd,
     train_ids |-> tids, valid_ids |-> vids]
Raise(e) == Outcome(e, None, None, NoIds, NoIds)

\* __init__: assert self._type in ('map', 'iterable')
init_error(type) == IF type \in {"map", "iterable"} THEN "none" ELSE "AssertionError"

\* the exception setup_iterable_files raises for a split_by, if any
files_split_error(split_by) ==
    IF split_by \in {"files", "rows"} THEN "none" ELSE "AttributeError"

\* split_by = 'rows' falling into the hash_id branch
parts_split_error_rows_allowed(split_by) ==
    IF split_by \in {"hash_id", "rows"} THEN "none" ELSE "AttributeError"

\* the exception setup_iterable_parts raises for a split_by, if any
parts_split_error(split_by) ==
    IF split_by = "hash_id" THEN "none"
    ELSE IF split_by = "rows" THEN "NotImplementedError"
    ELSE "AttributeError"

\* the two datasets of split_by = 'rows', over all files
rows_datasets(c, ids) ==
    Outcome("none",
        ParquetDataset(DataFiles,
            build_iterable_processing(c, "train", ids.train, ids.valid),
            train_shuffle_files(c)),
        ParquetDataset(DataFiles,
            build_iterable_processing(c, "valid", ids.train, ids.valid),
            FALSE),
        ids.train, ids.valid)

\* the two datasets of split_by = 'files', over the splitter's files
files_datasets(c, splitter) ==
    Outcome("none",
        ParquetDataset(splitter.train,
            build_iterable_processing(c, "train", NoIds, NoIds),
            train_shuffle_files(c)),
        ParquetDataset(splitter.valid,
            build_iterable_processing(c, "valid", NoIds, NoIds),
            FALSE),
        NoIds, NoIds)

\* the two datasets of split_by = 'hash_id', over the splitter's hash parts
parts_datasets(c, splitter) ==
    Outcome("none",
        PartitionedDataset(splitter.train,
            build_iterable_processing(c, "train", NoIds, NoIds),
            train_shuffle_files(c)),
        PartitionedDataset(splitter.valid,
            build_iterable_processing(c, "valid", NoIds, NoIds),
            FALSE),
        NoIds, NoIds)

setup_iterable_files(c, rows) ==
    IF files_split_error(c.split_by) # "none" THEN Raise(files_split_error(c.split_by))
    ELSE IF c.split_by = "rows" THEN rows_datasets(c, split_by_rows(c, DataFiles, rows))
    ELSE files_datasets(c, ListSplitter(DataFiles, c.valid_size))

setup_iterable_parts(c, rows) ==
    IF parts_split_error(c.split_by) # "none" THEN Raise(parts_split_error(c.split_by))
    ELSE parts_datasets(c, ListSplitter(DataFiles, c.valid_size))

\* setup_map: both datasets are read to the end, then wrapped
setup_map(o, rows) ==
    [o EXCEPT
        !.train_dataset =
            MapSplittingDataset(CHOOSE s \in Items(o.train_dataset, rows) : TRUE,
                                "train", build_augmentations("train")),
        !.valid_dataset =
            MapSplittingDataset(CHOOSE s \in Items(o.valid_dataset, rows) : TRUE,
                                "valid", build_augmentations("valid"))]

\* the first statement of prepare_data: the iterable datasets
setup_iterable(c, rows) ==
    IF c.has_files THEN setup_iterable_files(c, rows)
    ELSE IF c.has_parts THEN setup_iterable_parts(c, rows)
    ELSE Raise("AttributeError")

\* the second statement of prepare_data, reached when the first did not raise
setup_map_if_map(c, o, rows) ==
    IF o.err = "none" /\ c.type = "map" THEN setup_map(o, rows) ELSE o

prepare_data(c, rows) == setup_map_if_map(c, setup_iterable(c, rows), rows)

\* collate_fn of both loaders
loader_collate_fn(type) ==
    IF type # "iterable" THEN "nested_list_to_flat_with_collate(collate_nsp_pairs)"
    ELSE "collate_nsp_pairs"

\* shuffle= left at its default
train_loader_shuffle_off(type) == FALSE

\* shuffle= of the train loader; the valid loader leaves the default, False
train_loader_shuffle(type) == IF type = "iterable" THEN FALSE ELSE TRUE
val_loader_shuffle(type) == FALSE

\* ------------------------------------------------------------- actions
Init ==
    /\ pc = "new"
    /\ err = "none"
    /\ conf = NoConf
    /\ data_rows = <<>>
    /\ train_dataset = None
    /\ valid_dataset = None
    /\ train_source = None
    /\ valid_source = None
    /\ train_ids = NoIds
    /\ valid_ids = NoIds
    /\ train_loader = NoLoader
    /\ val_loader = NoLoader
    /\ batch = <<>>
    /\ out = NoOut

\* NspDataModuleTrain(conf, pl_module)
Construct(c) ==
    /\ pc = "new"
    /\ conf' = c
    /\ err' = init_error(c.type)
    /\ pc' = IF init_error(c.type) = "none" THEN "constructed" ELSE "failed"
    /\ UNCHANGED <<data_rows, train_dataset, valid_dataset, train_source,
                   valid_source, train_ids, valid_ids, train_loader, val_loader,
                   batch, out>>

\* the fields after prepare_data ended with outcome o
Assign(o, rows) ==
    IF o.err = "none"
    THEN /\ pc' = "prepared"
         /\ data_rows' = rows
         /\ train_dataset' = o.train_dataset
         /\ valid_dataset' = o.valid_dataset
         /\ train_source' = o.train_source
         /\ valid_source' = o.valid_source
         /\ train_ids' = o.train_ids
         /\ valid_ids' = o.valid_ids
         /\ UNCHANGED err
    ELSE /\ pc' = "failed"
         /\ err' = o.err
         /\ UNCHANGED <<data_rows, train_dataset, valid_dataset,
                        train_source, valid_source, train_ids, valid_ids>>

\* prepare_data(), over the rows the source holds
PrepareData(rows) ==
    /\ pc = "constructed"
    /\ Assign(prepare_data(conf, rows), rows)
    /\ UNCHANGED <<conf, train_loader, val_loader, batch, out>>

TrainDataloader ==
    /\ pc = "prepared"
    /\ ~train_loader.built
    /\ train_loader' = [built |-> TRUE, collate_fn |-> loader_collate_fn(conf.type),
                        shuffle |-> train_loader_shuffle(conf.type), part |-> "train"]
    /\ UNCHANGED <<pc, err, conf, data_rows, train_dataset, valid_dataset,
                   train_source, valid_source, train_ids, valid_ids, val_loader,
                   batch, out>>

ValDataloader ==
    /\ pc = "prepared"
    /\ ~val_loader.built
    /\ val_loader' = [built |-> TRUE, collate_fn |-> loader_collate_fn(conf.type),
                      shuffle |-> val_loader_shuffle(conf.type), part |-> "valid"]
    /\ UNCHANGED <<pc, err, conf, data_rows, train_dataset, valid_dataset,
                   train_source, valid_source, train_ids, valid_ids, train_loader,
                   batch, out>>

Next ==
    \/ \E c \in Confs : Construct(c)
    \/ \E rows \in Datasets : PrepareData(rows)
    \/ TrainDataloader
    \/ ValDataloader

Spec == Init /\ [][Next]_vars

\* collate_nsp_pairs on its own: a batch, then one call
InitCollate ==
    /\ pc = "collate"
    /\ err = "none"
    /\ conf = NoConf
    /\ data_rows = <<>>
    /\ train_dataset = None
    /\ valid_dataset = None
    /\ train_source = None
    /\ valid_source = None
    /\ train_ids = NoIds
    /\ valid_ids = NoIds
    /\ train_loader = NoLoader
    /\ val_loader = NoLoader
    /\ batch \in Batches
    /\ out = NoOut

Collate(p) ==
    /\ pc = "collate"
    /\ out = NoOut
    /\ out' = collate_nsp_pairs(batch, p)
    /\ UNCHANGED <<pc, err, conf, data_rows, train_dataset, valid_dataset,
                   train_source, valid_source, train_ids, valid_ids, train_loader,
                   val_loader, batch>>

NextCollate == out = NoOut /\ \E p \in Perms(Len(batch)) : Collate(p)

SpecCollate == InitCollate /\ [][NextCollate]_vars

\* ============================================================== claims
Collated == pc = "collate" /\ out # NoOut
Prepared == pc = "prepared"
RowsMode == conf.has_files /\ conf.split_by = "rows"
FirstHalf(s) == SubSeq(s, 1, Len(s) \div 2)
SecondHalf(s) == SubSeq(s, Len(s) \div 2 + 1, Len(s))

\* C1: for a batch of n pairs collate_nsp_pairs returns 2n left entries, 2n
\* right entries and 2n labels, the labels being n ones followed by n zeros.
C1_DoubledAndLabelled ==
    Collated =>
        LET n == Len(batch)
        IN  /\ Len(out.lefts) = 2 * n
            /\ Len(out.rights) = 2 * n
            /\ Len(out.targets) = 2 * n
            /\ \A i \in 1..n : out.targets[i] = 1 /\ out.targets[n + i] = 0

\* a batch of 4 pairs was collated to the labels [1,1,1,1,0,0,0,0]
C1_Witness ==
    Collated /\ Len(batch) = 4 /\ out.targets = <<1, 1, 1, 1, 0, 0, 0, 0>>

\* C2: the first n examples are the original pairs in their order, the lefts of
\* the second half repeat the lefts of the first half in the same order, and the
\* rights of the second half are a permutation of the rights of the first half.
C2_HalvesRelated ==
    Collated =>
        /\ \A i \in 1..Len(batch) : <<out.lefts[i], out.rights[i]>> = batch[i]
        /\ SecondHalf(out.lefts) = FirstHalf(out.lefts)
        /\ IsPermutationOf(SecondHalf(out.rights), FirstHalf(out.rights))

\* a batch of distinct pairs whose rights the shuffle did reorder
C2_Witness ==
    /\ Collated
    /\ Len(batch) >= 3
    /\ \A i, j \in 1..Len(batch) : batch[i] = batch[j] => i = j
    /\ SecondHalf(out.rights) # FirstHalf(out.rights)

\* C3: for a batch of n >= 1 pairs from n distinct samples, every example
\* labelled 0 pairs views of different samples and every example labelled 1
\* pairs views of the same sample.
C3_LabelMeansSameSample ==
    (/\ Collated
     /\ \A i, j \in 1..Len(batch) : batch[i][1].sample = batch[j][1].sample => i = j)
    => \A i \in 1..Len(out.targets) :
          /\ out.targets[i] = 0 => out.lefts[i].sample # out.rights[i].sample
          /\ out.targets[i] = 1 => out.lefts[i].sample = out.rights[i].sample

\* the ids split_by_rows collects: the col_id of every row the length filter keeps
CollectedIds == {data_rows[i].id : i \in {j \in 1..Len(data_rows) :
                                            data_rows[j].len >= conf.min_seq_len}}
CollectedCount == Cardinality({j \in 1..Len(data_rows) :
                                  data_rows[j].len >= conf.min_seq_len})

\* the ids of the records a dataset can yield
IdsIn(ds) == UNION {{s[i].id : i \in DOMAIN s} : s \in Items(ds, data_rows)}

ChainFiltersBy(ds, ids) ==
    \E i \in 1..Len(ds.chain) : ds.chain[i] = IdFilter(ids)

BadConfig(c) ==
    \/ c.type \notin {"map", "iterable"}
    \/ ~c.has_files /\ ~c.has_parts
    \/ c.has_files /\ c.split_by \notin {"files", "rows"}
    \/ ~c.has_files /\ c.has_parts /\ c.split_by # "hash_id"

\* C6: with a type that is neither map nor iterable, no dataset_files and no
\* dataset_parts, a split_by the source does not know, or split_by rows for a
\* partitioned source, construction plus prepare_data ends in an error, before
\* any loader is built, and assigns neither train_dataset nor valid_dataset.
C6_ConfigErrorsFatal ==
    (pc \in {"constructed", "prepared", "failed"} /\ BadConfig(conf)) =>
        /\ pc # "prepared"
        /\ pc = "constructed" => conf.type \in {"map", "iterable"}
        /\ pc = "failed" => err # "none"
        /\ train_dataset = None /\ valid_dataset = None
        /\ ~train_loader.built /\ ~val_loader.built

\* prepare_data refused split_by rows for a partitioned source
C6_Witness ==
    /\ pc = "failed"
    /\ err = "NotImplementedError"
    /\ conf.has_parts /\ ~conf.has_files /\ conf.split_by = "rows"
    /\ train_dataset = None /\ valid_dataset = None

\* C7: when no record survives the transform chain of a split, prepare_data
\* fails; so after a prepare_data that completed both datasets yield records.
C7_EmptySplitFatal ==
    Prepared =>
        /\ \A s \in Items(train_dataset, data_rows) : s # <<>>
        /\ \A s \in Items(valid_dataset, data_rows) : s # <<>>

HasStage(chain, ops) == \E i \in 1..Len(chain) : chain[i].op \in ops

\* C8: for every accepted configuration the validation path is not shuffled
\* at any level, and the train path is shuffled by the loader alone in map mode
\* and by file shuffling plus an IterableShuffle stage in iterable mode.
C8_ShufflePolicy ==
    Prepared =>
        /\ ~valid_source.shuffle_files
        /\ ~HasStage(valid_source.chain, {"IterableShuffle"})
        /\ val_loader.built => ~val_loader.shuffle
        /\ conf.type = "map" =>
              /\ train_loader.built => train_loader.shuffle
              /\ ~train_source.shuffle_files
              /\ ~HasStage(train_source.chain, {"IterableShuffle"})
        /\ conf.type = "iterable" =>
              /\ train_loader.built => ~train_loader.shuffle
              /\ train_source.shuffle_files
              /\ HasStage(train_source.chain, {"IterableShuffle"})

\* both loaders of a map-style module are built
C8_Witness ==
    /\ Prepared
    /\ conf.type = "map"
    /\ train_loader.built /\ train_loader.shuffle
    /\ val_loader.built

\* the rows (id, len) a dataset can yield
RowsIn(ds) ==
    UNION {{[id |-> s[i].id, len |-> s[i].len] : i \in DOMAIN s} :
              s \in Items(ds, data_rows)}

\* the validation dataset prepare_data would build from the same rows if
\* train.min_seq_len let every row pass (every sequence has length >= 1)
ValidDatasetUnfiltered ==
    prepare_data([conf EXCEPT !.min_seq_len = 1], data_rows).valid_dataset

SplitTags == {"IterableSplittingDataset", "MapSplittingDataset"}
CleanupTags == {"FeatureTypeCast", "FeatureFilter", "CategorySizeClip"}
LateStages == {"IterableShuffle", "IterableSplittingDataset", "IterableAugmentations"}
Count(h, tags) == Cardinality({i \in DOMAIN h : h[i] \in tags})
Pos(h, tag) == CHOOSE i \in DOMAIN h : h[i] = tag

\* a view on its way to the batch assembler: split once, after the cleanup
\* stages, then augmented once by the chain of its part
ViewOk(it, part) ==
    LET h == it.hist
        split == CHOOSE i \in DOMAIN h : h[i] \in SplitTags
    IN  /\ Count(h, SplitTags) = 1
        /\ it.view \in 1..SplitCount
        /\ \A c \in CleanupTags : Count(h, {c}) = 1 /\ Pos(h, c) < split
        /\ Count(h, {"sequence_pair_augmentation"}) = 1
        /\ Pos(h, "sequence_pair_augmentation") > split
        /\ IF part = "train"
           THEN /\ Count(h, {"DropoutTrx"}) = 1
                /\ split < Pos(h, "DropoutTrx")
                /\ Pos(h, "DropoutTrx") < Pos(h, "sequence_pair_augmentation")
                /\ Len(h) = split + 2
           ELSE /\ Count(h, {"DropoutTrx"}) = 0
                /\ Len(h) = split + 1

\* C10: every record reaching the batch assembler was split into views once
\* and each view augmented once, after the cleanup stages: DropoutTrx then
\* sequence_pair_augmentation for train, sequence_pair_augmentation alone for
\* valid.  In map mode the iterable chain has no shuffle, splitting or
\* augmentation stage and the collate function is the flattening wrapper; in
\* iterable mode it is collate_nsp_pairs itself.
C10_SplitThenAugmentOnce ==
    Prepared =>
        /\ \A s \in Items(train_dataset, data_rows) :
              \A i \in DOMAIN s : ViewOk(s[i], "train")
        /\ \A s \in Items(valid_dataset, data_rows) :
              \A i \in DOMAIN s : ViewOk(s[i], "valid")
        /\ conf.type = "map" =>
              /\ ~HasStage(train_source.chain, LateStages)
              /\ ~HasStage(valid_source.chain, LateStages)
              /\ \A l \in {train_loader, val_loader} : l.built =>
                    l.collate_fn = "nested_list_to_flat_with_collate(collate_nsp_pairs)"
        /\ conf.type = "iterable" =>
              \A l \in {train_loader, val_loader} : l.built =>
                    l.collate_fn = "collate_nsp_pairs"

\* both loaders of an iterable module are built and both datasets yield views
C10_Witness ==
    /\ Prepared
    /\ conf.type = "iterable"
    /\ train_loader.built /\ val_loader.built
    /\ \E s \in Items(train_dataset, data_rows) : s # <<>>
    /\ \E s \in Items(valid_dataset, data_rows) : s # <<>>

====
